---- MODULE Spec2Model ----
(***************************************************************************)
(* Consensus merging of annotation sets (cvat/apps/consensus).             *)
(*                                                                         *)
(* The model follows intersect_merge.py: one IntersectMerge engine that is *)
(* called on N datasets, aligns their items, clusters the shapes of every  *)
(* item across the sources, votes the label of every cluster, reduces the  *)
(* cluster to one annotation and averages the per-source consensus scores. *)
(*                                                                         *)
(* Numbers are exact rationals <<numerator, denominator>>.  Shapes are     *)
(* boxes of one size on one row of the image, so that the IoU of two boxes *)
(* is the IoU of two intervals.                                            *)
(***************************************************************************)
EXTENDS Integers, Sequences, FiniteSets, TLC

\* ------------------------------------------------------------------ bounds
NumSources == 3
NumItems == 2
MaxShapes == 4
MaxPos == 3
BoxWidth == 4
MaxVotes == 4

Sources == 0 .. (NumSources - 1)
Keys == 1 .. NumItems
Labels == {1, 2}

\* --------------------------------------------------------------- rationals
RECURSIVE GCD(_, _)
GCD(a, b) == IF b = 0 THEN a ELSE GCD(b, a % b)

Rat(n, d) == IF n = 0 THEN <<0, 1>> ELSE <<n \div GCD(n, d), d \div GCD(n, d)>>

Zero == <<0, 1>>
One == <<1, 1>>
\* numpy's mean of an empty list
NaN == <<0, 0>>
\* an attribute map without a "score" entry
NoScore == <<>>

RLeq(p, q) == p[1] * q[2] <= q[1] * p[2]
RLt(p, q) == p[1] * q[2] < q[1] * p[2]
RAdd(p, q) == Rat(p[1] * q[2] + q[1] * p[2], p[2] * q[2])
RMul(p, q) == Rat(p[1] * q[1], p[2] * q[2])
RDivInt(p, k) == Rat(p[1], p[2] * k)
RMax0(p) == IF RLt(p, Zero) THEN Zero ELSE p
IsNumber(p) == p[2] > 0
InUnitInterval(p) == IsNumber(p) /\ RLeq(Zero, p) /\ RLeq(p, One)

RECURSIVE RSumSeq(_)
RSumSeq(s) == IF s = <<>> THEN Zero ELSE RAdd(Head(s), RSumSeq(Tail(s)))

\* np.mean: nan for the empty list
Mean(s) == IF s = <<>> THEN NaN ELSE RDivInt(RSumSeq(s), Len(s))

RECURSIVE SetToSeq(_)
SetToSeq(S) == IF S = {} THEN <<>>
               ELSE LET m == CHOOSE x \in S : \A y \in S : x <= y
                    IN <<m>> \o SetToSeq(S \ {m})

Perms(S) == {p \in [1 .. Cardinality(S) -> S] : \A i, j \in DOMAIN p : i # j => p[i] # p[j]}

Range(s) == {s[i] : i \in DOMAIN s}

\* ------------------------------------------------------------------ inputs
\* An annotation object.  Its attribute map is the two entries the engine
\* reads or writes: "score" (NoScore when absent) and "source" ("" when absent).
BoxAnn(s, k, l, sc, z, x) ==
    [src |-> s, item |-> k, type |-> "bbox", label |-> l, score |-> sc,
     z_order |-> z, x |-> x, source |-> ""]

LabelAnn(s, k, l) ==
    [src |-> s, item |-> k, type |-> "label", label |-> l, score |-> NoScore,
     z_order |-> 0, x |-> 0, source |-> ""]

NonDecreasing(n, S) == {f \in [1 .. n -> S] : \A i \in 1 .. n : \A j \in 1 .. n : i <= j => f[i] <= f[j]}

\* A call's input: which sources carry which item, the annotation objects, the
\* configuration, and whether the label categories define consistent groups.
Input(pr, as, q, th, pd, g) ==
    [present |-> pr, anns |-> as, quorum |-> q, output_conf_thresh |-> th,
     pairwise_dist |-> pd, groups_ok |-> g]

\* the first item carried by every source, the other items by none
FirstItemOnly == [k \in Keys |-> IF k = 1 THEN Sources ELSE {}]

\* One item carried by every source, boxes of one label on it.
ClusterInput(srcs, xs, pd) ==
    Input(FirstItemOnly, [i \in DOMAIN srcs |-> BoxAnn(srcs[i], 1, 1, NoScore, 0, xs[i])],
          0, Zero, pd, TRUE)

\* Label annotations only, on one item carried by every source; a source may
\* hold several.
LabelInput(srcs, ls, q, th) ==
    Input(FirstItemOnly, [i \in DOMAIN srcs |-> LabelAnn(srcs[i], 1, ls[i])],
          q, th, <<1, 4>>, TRUE)

\* One box, or two, on one item carried by every source: the first of source 0
\* at place 0 with z-order 0, the second of any source, place and z-order;
\* each with its own label and confidence.
ShapeBoxes ==
    {<<BoxAnn(0, 1, l, sc, 0, 0)>> : l \in Labels, sc \in {NoScore, <<1, 2>>}}
    \cup {<<BoxAnn(0, 1, l[1], sc[1], 0, 0), BoxAnn(s, 1, l[2], sc[2], z, x)>> :
             l \in Labels \X Labels,
             sc \in {NoScore, <<1, 2>>} \X {NoScore, <<1, 2>>},
             s \in Sources, z \in {0, 1}, x \in 0 .. MaxPos}

ShapeInput(bs, q, th) == Input(FirstItemOnly, bs, q, th, <<1, 4>>, TRUE)

\* Items carried by some of the sources only: the first item by one set of
\* sources, every other item by another; one box of one label for every source
\* that carries the item; the configuration may be invalid.
ItemInput(first, others, q, g) ==
    LET pr == [k \in Keys |-> IF k = 1 THEN first ELSE others]
    IN  Input(pr,
              [i \in {(p[1] - 1) * NumSources + p[2] + 1 :
                          p \in {h \in Keys \X Sources : h[2] \in pr[h[1]]}}
                  |-> BoxAnn((i - 1) % NumSources, ((i - 1) \div NumSources) + 1,
                             1, NoScore, 0, 0)],
              q, Zero, <<1, 4>>, g)

\* ------------------------------------------------------------------- state
VARIABLES
    pc,            \* where IntersectMerge.__call__ stands
    exc,           \* the exception that ended the call, "" when none
    input,         \* the datasets and the configuration the call was given
    anns,          \* the annotation objects of the datasets, as they are now
    errors,        \* IntersectMerge.errors
    merged,        \* the merged dataset: item key -> annotations put for it
    dataset_mean_consensus_score,
    dataset_map,   \* IntersectMerge._dataset_map (the sources registered)
    ann_map,       \* IntersectMerge._ann_map (the annotations registered)
    queue,         \* item keys still to merge, in item_matches order
    item_id,       \* IntersectMerge._item_id, 0 before the first item
    cache,         \* CachedSimilarityFunction.cache of the shape merger
    adjacent,      \* match_annotations: id -> matched ids of later sources
    visited,
    cluster,
    to_visit,
    clusters,
    produced,      \* what merge_annotations returned for the current item
    matched,       \* what the last match_annotations_two_sources call returned
    merged_cluster, \* the cluster merge_cluster was last given, in list order
    skeleton_map,  \* SkeletonMatcher.skeleton_map: skeleton -> its point set, 0 for None
    instance_map,  \* SkeletonMatcher.instance_map: point set -> its instance group
    pairs_left,    \* match_annotations: the source pairs still to match
    call_no        \* how many times the engine has been called

vars == <<pc, exc, input, anns, errors, merged, dataset_mean_consensus_score,
          dataset_map, ann_map, queue, item_id, cache, adjacent, visited, cluster,
          to_visit, clusters, produced, matched, merged_cluster, skeleton_map,
          instance_map, pairs_left, call_no>>

\* the state of the pairwise matchers called on their own
matcher_vars == <<matched>>

\* the state of the call of a merger
merger_vars == <<merged_cluster>>

\* the state of the skeleton matcher and the count of calls
skeleton_vars == <<skeleton_map, instance_map, pairs_left, call_no>>

AnnIds == DOMAIN anns

\* the annotations of one type that source s holds for item k, in list order
TypedAnns(k, s, t) == {a \in AnnIds : anns[a].item = k /\ anns[a].src = s /\ anns[a].type = t}

ItemAnns(k) == {a \in AnnIds : anns[a].item = k}

\* IntersectMerge.get_ann_source / get_ann_dataset_id
get_ann_source(a) == anns[a].src

dataset_count == Cardinality(dataset_map)

\* -------------------------------------------------------------- distances
Abs(n) == IF n < 0 THEN 0 - n ELSE n

\* IoU of two boxes of width BoxWidth on one row
bbox_iou(xa, xb) ==
    IF Abs(xa - xb) >= BoxWidth THEN Zero
    ELSE Rat(BoxWidth - Abs(xa - xb), BoxWidth + Abs(xa - xb))

\* BboxMatcher._distance_func on two annotation objects
distance_func(a, b) == bbox_iou(anns[a].x, anns[b].x)

\* the key left in call order
sort_key_unsorted(key) == key

\* CachedSimilarityFunction._sort_key
sort_key(key) == IF key[1] <= key[2] THEN key ELSE <<key[2], key[1]>>

\* CachedSimilarityFunction.__call__: <<returned value, cache afterwards>>
cached_call(c, a, b) ==
    IF a = b THEN <<One, c>>
    ELSE IF sort_key(<<a, b>>) \in DOMAIN c THEN <<c[sort_key(<<a, b>>)], c>>
    ELSE <<distance_func(a, b), (sort_key(<<a, b>>) :> distance_func(a, b)) @@ c>>

\* CachedSimilarityFunction.pop and set
cache_pop(c, key) == [k \in (DOMAIN c) \ {sort_key(key)} |-> c[k]]
cache_set(c, key, value) == (sort_key(key) :> value) @@ c

\* _ShapeMatcher.distance: the value of a call on cache c
distance(c, a, b) == cached_call(c, a, b)[1]

\* the cache after a distance call on every pair of P
RECURSIVE cache_after(_, _)
cache_after(c, P) ==
    IF P = {} THEN c
    ELSE LET p == CHOOSE q \in P : TRUE
         IN cache_after(cached_call(c, p[1], p[2])[2], P \ {p})

EmptyCache == [k \in {} |-> Zero]

\* ---------------------------------------------------------- pairwise matcher
\* _ShapeMatcher.label_matcher
label_matcher(a, b) == anns[a].label = anns[b].label

RECURSIVE TotalSimilarity(_, _)
TotalSimilarity(c, M) ==
    IF M = {} THEN Zero
    ELSE LET p == CHOOSE q \in M : TRUE
         IN RAdd(distance(c, p[1], p[2]), TotalSimilarity(c, M \ {p}))

OneToOne(M) == \A p \in M : \A q \in M : p # q => (p[1] # q[1] /\ p[2] # q[2])

\* The pairs match_segments may return for the lists A and B: a one-to-one
\* pairing of same-label annotations at least dist_thresh similar, of the
\* highest total similarity.
match_segments(c, A, B, dist_thresh) ==
    LET eligible == {p \in A \X B : label_matcher(p[1], p[2])
                                      /\ RLeq(dist_thresh, distance(c, p[1], p[2]))}
        pairings == {M \in SUBSET eligible : OneToOne(M)}
    IN {M \in pairings : \A M2 \in pairings : RLeq(TotalSimilarity(c, M2), TotalSimilarity(c, M))}

\* BboxMatcher.match_annotations_two_sources
match_annotations_two_sources(c, A, B) == match_segments(c, A, B, input.pairwise_dist)

\* ----------------------------------------------------------- cluster builder
\* _ShapeMatcher.cluster_dist: the default, Conf has no field to set it
cluster_dist == <<-1, 1>>

\* match_annotations: a negative cluster_dist means pairwise_dist
EffectiveClusterDist == IF RLt(cluster_dist, Zero) THEN input.pairwise_dist ELSE cluster_dist

is_close_enough(c, cl, extra_id) ==
    \A a \in cl : ~RLt(distance(c, a, extra_id), EffectiveClusterDist)

has_same_source(cl, extra_id) == \E a \in cl : anns[a].src = anns[extra_id].src

\* the sources that hold shapes for item k, and the shapes of the item
ShapeSources(k) == {s \in input.present[k] : TypedAnns(k, s, "bbox") # {}}
Shapes(k) == {a \in ItemAnns(k) : anns[a].type = "bbox"}

\* every pair of annotations of two different source lists of item k
CrossPairs(k) ==
    {p \in Shapes(k) \X Shapes(k) : anns[p[1]].src < anns[p[2]].src}

\* the edge sets the pairwise matching of all source pairs may produce
RECURSIVE MatchChoices(_, _, _)
MatchChoices(c, k, pairs) ==
    IF pairs = {} THEN {{}}
    ELSE LET p == CHOOSE q \in pairs : TRUE
         IN {M \cup R : M \in match_annotations_two_sources(
                                  c, TypedAnns(k, p[1], "bbox"), TypedAnns(k, p[2], "bbox")),
                        R \in MatchChoices(c, k, pairs \ {p})}

SourcePairs(k) == {p \in ShapeSources(k) \X ShapeSources(k) : p[1] < p[2]}

\* the order of the keys of id_segm: source by source, list order within
Before(a, b) == anns[a].src < anns[b].src \/ (anns[a].src = anns[b].src /\ a < b)

\* the pairs _is_close_enough may have evaluated for the candidates cands:
\* it walks the cluster in set order and stops at the first member too far
RECURSIVE EvaluatedChoices(_, _, _)
EvaluatedChoices(c, cl, cands) ==
    IF cands = {} THEN {{}}
    ELSE LET i == CHOOSE q \in cands : TRUE
             failing == {a \in cl : RLt(distance(c, a, i), EffectiveClusterDist)}
             walked == IF failing = {} THEN {cl}
                       ELSE {S \cup {f} : S \in SUBSET (cl \ failing), f \in failing}
         IN {{<<a, i>> : a \in W} \cup R : W \in walked,
                                            R \in EvaluatedChoices(c, cl, cands \ {i})}

\* ------------------------------------------------------------------ mergers
\* a.attributes.get("score", 1)
ScoreOr1(a) == IF a.score = NoScore THEN One ELSE a.score

\* the distinct labels of a sequence of annotations, in first-seen order
RECURSIVE FirstSeen(_, _)
FirstSeen(order, seen) ==
    IF order = <<>> THEN <<>>
    ELSE IF anns[Head(order)].label \in seen THEN FirstSeen(Tail(order), seen)
    ELSE <<anns[Head(order)].label>>
             \o FirstSeen(Tail(order), seen \cup {anns[Head(order)].label})

Supporters(order, l) == {i \in DOMAIN order : anns[order[i]].label = l}

RECURSIVE Weight(_, _)
Weight(order, l) ==
    IF order = <<>> THEN Zero
    ELSE RAdd(IF anns[Head(order)].label = l THEN ScoreOr1(anns[Head(order)]) ELSE Zero,
              Weight(Tail(order), l))

\* LabelMatcher.match_annotations: the one cluster sum(sources, [])
RECURSIVE InListOrder(_)
InListOrder(S) ==
    IF S = {} THEN <<>>
    ELSE LET m == CHOOSE a \in S : \A b \in S \ {a} : Before(a, b)
         IN <<m>> \o InListOrder(S \ {m})

LabelCluster(k) == InListOrder({a \in ItemAnns(k) : anns[a].type = "label"})

\* A merged label annotation, Label(label_id, attributes={"score": ...})
MergedLabel(l, sc) ==
    [ref |-> 0, type |-> "label", label |-> l, score |-> sc, z_order |-> 0, x |-> 0,
     source |-> ""]

\* LabelMerger.merge_clusters on the label cluster.  A label below quorum makes
\* the code iterate an annotation object (for l in a), which raises TypeError
\* before the FailedVote error is added.
label_merge_clusters(order) ==
    LET votes == FirstSeen(order, {})
        count(l) == Cardinality(Supporters(order, l))
    IN IF \E i \in DOMAIN votes : count(votes[i]) < input.quorum
       THEN [raised |-> TRUE, merged |-> <<>>]
       ELSE [raised |-> FALSE,
             merged |-> [i \in DOMAIN votes |->
                            MergedLabel(votes[i], Rat(count(votes[i]), dataset_count))]]

\* the vote with a tie going to the label seen last
find_cluster_label_last(order) ==
    LET votes == FirstSeen(order, {})
        best == CHOOSE i \in DOMAIN votes :
                    /\ \A j \in DOMAIN votes : RLeq(Weight(order, votes[j]), Weight(order, votes[i]))
                    /\ \A j \in DOMAIN votes :
                           j > i => RLt(Weight(order, votes[j]), Weight(order, votes[i]))
        count == Cardinality(Supporters(order, votes[best]))
    IN [label |-> IF count < input.quorum THEN 0 ELSE votes[best],
        score |-> RDivInt(Weight(order, votes[best]), dataset_count),
        votes |-> [l \in Range(votes) |->
                      <<Weight(order, l), Cardinality(Supporters(order, l))>>]]

\* _ShapeMerger.find_cluster_label on a cluster in list order
find_cluster_label(order) ==
    LET votes == FirstSeen(order, {})
        best == CHOOSE i \in DOMAIN votes :
                    /\ \A j \in DOMAIN votes : RLeq(Weight(order, votes[j]), Weight(order, votes[i]))
                    /\ \A j \in DOMAIN votes :
                           j < i => RLt(Weight(order, votes[j]), Weight(order, votes[i]))
        count == Cardinality(Supporters(order, votes[best]))
    IN [label |-> IF count < input.quorum THEN 0 ELSE votes[best],
        score |-> RDivInt(Weight(order, votes[best]), dataset_count),
        votes |-> [l \in Range(votes) |->
                      <<Weight(order, l), Cardinality(Supporters(order, l))>>]]

RECURSIVE SumX(_)
SumX(order) == IF order = <<>> THEN 0 ELSE anns[Head(order)].x + SumX(Tail(order))

\* IoU of member i with the mean box of the cluster
MeanBoxIoU(order, i) ==
    LET n == Len(order)
        k == Abs(n * anns[order[i]].x - SumX(order))
    IN IF k >= n * BoxWidth THEN Zero ELSE Rat(n * BoxWidth - k, n * BoxWidth + k)

\* _ShapeMerger._merge_cluster_shape_mean_box_nearest: the first member of the
\* highest IoU with the mean box
merge_cluster_shape_mean_box_nearest(order) ==
    LET pos == CHOOSE i \in DOMAIN order :
                   /\ \A j \in DOMAIN order : RLeq(MeanBoxIoU(order, j), MeanBoxIoU(order, i))
                   /\ \A j \in DOMAIN order :
                          j < i => RLt(MeanBoxIoU(order, j), MeanBoxIoU(order, i))
    IN order[pos]

\* the similarities merge_cluster_shape appends for source s, in list order
RECURSIVE Appended(_, _, _, _)
Appended(c, order, shape, s) ==
    IF order = <<>> THEN <<>>
    ELSE (IF get_ann_source(Head(order)) = s
          THEN <<RMax0(distance(c, Head(order), shape))>> ELSE <<>>)
         \o Appended(c, Tail(order), shape, s)

\* _ShapeMerger.merge_cluster_shape: the representative and the shape score
merge_cluster_shape(c, order) ==
    LET shape == merge_cluster_shape_mean_box_nearest(order)
    IN [shape |-> shape,
        shape_score |-> RDivInt(RSumSeq([i \in DOMAIN order |->
                                             RMax0(distance(c, shape, order[i]))]),
                                Len(order))]

MaxZ(order) == CHOOSE z \in {anns[a].z_order : a \in Range(order)} :
                   \A a \in Range(order) : anns[a].z_order <= z

\* the annotation object as merge_cluster leaves it
MergedShape(a, l, sc, z) == [a EXCEPT !.label = l, !.score = sc, !.z_order = z]

AsProduced(ref, a) ==
    [ref |-> ref, type |-> a.type, label |-> a.label, score |-> a.score,
     z_order |-> a.z_order, x |-> a.x, source |-> a.source]

\* the filter with a strict comparison
Kept_strict(annotations) ==
    SelectSeq(annotations, LAMBDA a : RLt(input.output_conf_thresh, ScoreOr1(a)))

\* merge_items: the annotations kept for the returned item
Kept(annotations) ==
    SelectSeq(annotations, LAMBDA a : RLeq(input.output_conf_thresh, ScoreOr1(a)))

Tagged(annotations) == [i \in DOMAIN annotations |-> [annotations[i] EXCEPT !.source = "consensus"]]

\* ------------------------------------------------------------ the merge call
Blank(sc) ==
    /\ input = sc
    /\ anns = sc.anns
    /\ pc = "idle"
    /\ exc = ""
    /\ errors = <<>>
    /\ merged = <<>>
    /\ dataset_mean_consensus_score = <<>>
    /\ dataset_map = {}
    /\ ann_map = {}
    /\ queue = <<>>
    /\ item_id = 0
    /\ cache = <<>>
    /\ adjacent = <<>>
    /\ visited = {}
    /\ cluster = {}
    /\ to_visit = {}
    /\ clusters = <<>>
    /\ produced = <<>>
    /\ matched = {}
    /\ merged_cluster = <<>>
    /\ skeleton_map = <<>>
    /\ instance_map = <<>>
    /\ pairs_left = <<>>
    /\ call_no = 1

\* __call__, lines 79-81
has_missing_sources(k) == Cardinality(input.present[k]) < Cardinality(Sources)
missing_sources_present(k) == dataset_map \cap input.present[k]
missing_sources(k) == dataset_map \ input.present[k]

MissingSources(k, sources) ==
    [kind |-> "MissingSources", item |-> k, sources |-> sources, votes |-> <<>>]

FailedVote(k, votes, sources) ==
    [kind |-> "FailedVote", item |-> k, sources |-> sources, votes |-> votes]

\* __call__, lines 61-66: the error list is reset, the merged dataset created
Call ==
    /\ pc = "idle"
    /\ errors' = <<>>
    /\ merged' = <<>>
    /\ pc' = "check"
    /\ UNCHANGED <<exc, input, anns, dataset_mean_consensus_score, dataset_map, ann_map,
                   queue, item_id, cache, adjacent, visited, cluster, to_visit, clusters,
                   produced>>
    /\ UNCHANGED matcher_vars
    /\ UNCHANGED skeleton_vars
    /\ UNCHANGED merger_vars

\* __call__, line 68: _check_groups_definition raises on an invalid configuration
CheckGroupsDefinition ==
    /\ pc = "check"
    /\ IF input.groups_ok
       THEN pc' = "align" /\ exc' = exc
       ELSE pc' = "raised" /\ exc' = "InvalidConfiguration"
    /\ UNCHANGED <<input, anns, errors, merged, dataset_mean_consensus_score, dataset_map,
                   ann_map, queue, item_id, cache, adjacent, visited, cluster, to_visit,
                   clusters, produced>>
    /\ UNCHANGED matcher_vars
    /\ UNCHANGED skeleton_vars
    /\ UNCHANGED merger_vars

\* __call__, lines 70-74: match_items and the indexes of the call
MatchItems ==
    /\ pc = "align"
    /\ queue' = SetToSeq({k \in Keys : input.present[k] # {}})
    /\ dataset_mean_consensus_score' = [s \in Sources |-> <<>>]
    /\ dataset_map' = Sources
    /\ ann_map' = {}
    /\ pc' = "loop"
    /\ UNCHANGED <<exc, input, anns, errors, merged, item_id, cache, adjacent, visited,
                   cluster, to_visit, clusters, produced>>
    /\ UNCHANGED matcher_vars
    /\ UNCHANGED skeleton_vars
    /\ UNCHANGED merger_vars

\* __call__, lines 76-82, and merge_items up to the pairwise matching of
\* match_annotations (lines 357-368)
BeginItem ==
    /\ pc = "loop"
    /\ queue # <<>>
    /\ LET k == Head(queue)
           full == cache_after(EmptyCache, CrossPairs(k))
       IN /\ item_id' = k
          /\ errors' = IF has_missing_sources(k)
                       THEN Append(errors, MissingSources(k, missing_sources(k)))
                       ELSE errors
          /\ ann_map' = ann_map \cup ItemAnns(k)
          /\ cache' = full
          /\ \E E \in MatchChoices(full, k, SourcePairs(k)) :
                 adjacent' = [a \in Shapes(k) |-> {b \in Shapes(k) : <<a, b>> \in E}]
    /\ visited' = {}
    /\ cluster' = {}
    /\ to_visit' = {}
    /\ clusters' = <<>>
    /\ produced' = <<>>
    /\ pc' = "cluster"
    /\ UNCHANGED <<exc, input, anns, merged, dataset_mean_consensus_score, dataset_map, queue>>
    /\ UNCHANGED matcher_vars
    /\ UNCHANGED skeleton_vars
    /\ UNCHANGED merger_vars

\* match_annotations, lines 373-378: the next unvisited annotation starts a cluster
StartCluster ==
    /\ pc = "cluster"
    /\ to_visit = {}
    /\ \E idx \in DOMAIN adjacent :
           /\ idx \notin visited
           /\ \A j \in DOMAIN adjacent : j \notin visited /\ j # idx => Before(idx, j)
           /\ to_visit' = {idx}
    /\ cluster' = {}
    /\ UNCHANGED <<pc, exc, input, anns, errors, merged, dataset_mean_consensus_score,
                   dataset_map, ann_map, queue, item_id, cache, adjacent, visited, clusters,
                   produced>>
    /\ UNCHANGED matcher_vars
    /\ UNCHANGED skeleton_vars
    /\ UNCHANGED merger_vars

\* every neighbour of c, whether it is in a cluster or not
adjacent_all(c, vis) == adjacent[c]

\* match_annotations, lines 384-387: the neighbours of c that are in no cluster yet
unvisited_adjacent(c, vis) == {i \in adjacent[c] : i \notin vis}

\* match_annotations, lines 379-400: one turn of the while loop; set.pop takes
\* any element; the cluster is appended when the loop ends
Visit ==
    /\ pc = "cluster"
    /\ \E c \in to_visit :
           LET cl == cluster \cup {c}
               vis == visited \cup {c}
               cands == unvisited_adjacent(c, vis)
               tight == RLt(Zero, EffectiveClusterDist)
               admitted == {i \in cands : /\ (tight => is_close_enough(cache, cl, i))
                                          /\ ~has_same_source(cl, i)}
               rest == (to_visit \ {c}) \cup admitted
           IN /\ visited' = vis
              /\ to_visit' = rest
              /\ cluster' = IF rest = {} THEN {} ELSE cl
              /\ clusters' = IF rest = {} THEN Append(clusters, cl) ELSE clusters
              /\ IF tight
                 THEN \E P \in EvaluatedChoices(cache, cl, cands) : cache' = cache_after(cache, P)
                 ELSE cache' = cache
    /\ UNCHANGED <<pc, exc, input, anns, errors, merged, dataset_mean_consensus_score,
                   dataset_map, ann_map, queue, item_id, adjacent, produced>>
    /\ UNCHANGED matcher_vars
    /\ UNCHANGED skeleton_vars
    /\ UNCHANGED merger_vars

\* merge_annotations: LabelMerger.merge_clusters on the label cluster of the item
MergeLabels ==
    /\ pc = "cluster"
    /\ to_visit = {}
    /\ DOMAIN adjacent \subseteq visited
    /\ LET r == label_merge_clusters(LabelCluster(item_id))
       IN IF r.raised
          THEN pc' = "raised" /\ exc' = "TypeError" /\ produced' = produced
          ELSE pc' = "shapes" /\ exc' = exc /\ produced' = r.merged
    /\ UNCHANGED <<input, anns, errors, merged, dataset_mean_consensus_score, dataset_map,
                   ann_map, queue, item_id, cache, adjacent, visited, cluster, to_visit,
                   clusters>>
    /\ UNCHANGED matcher_vars
    /\ UNCHANGED skeleton_vars
    /\ UNCHANGED merger_vars

\* _ShapeMerger.merge_cluster on the next cluster, the cluster in any list order
MergeCluster ==
    /\ pc = "shapes"
    /\ clusters # <<>>
    /\ \E order \in Perms(Head(clusters)) :
           LET vote == find_cluster_label(order)
               m == merge_cluster_shape(cache, order)
               shape == m.shape
               obj == MergedShape(anns[shape], vote.label, RMul(vote.score, m.shape_score),
                                  MaxZ(order))
           IN /\ merged_cluster' = order
              /\ IF vote.label = 0
                 THEN /\ errors' = Append(errors, FailedVote(item_id, vote.votes, {}))
                      /\ UNCHANGED <<anns, dataset_mean_consensus_score, cache, produced>>
                 ELSE /\ anns' = [anns EXCEPT ![shape] = obj]
                      /\ dataset_mean_consensus_score' =
                             [s \in DOMAIN dataset_mean_consensus_score |->
                                 dataset_mean_consensus_score[s]
                                     \o Appended(cache, order, shape, s)]
                      /\ cache' = cache_after(cache, {<<a, shape>> : a \in Range(order)})
                      /\ produced' = Append(produced, AsProduced(shape, obj))
                      /\ errors' = errors
    /\ clusters' = Tail(clusters)
    /\ UNCHANGED <<pc, exc, input, merged, dataset_map, ann_map, queue, item_id, adjacent,
                   visited, cluster, to_visit>>
    /\ UNCHANGED matcher_vars
    /\ UNCHANGED skeleton_vars
    /\ UNCHANGED skeleton_vars

\* merge_items, lines 124-131, and merged.put
FinishItem ==
    /\ pc = "shapes"
    /\ clusters = <<>>
    /\ LET annotations == Tagged(Kept(produced))
           refs == {annotations[i].ref : i \in DOMAIN annotations} \ {0}
       IN /\ merged' = (item_id :> annotations) @@ merged
          /\ anns' = [a \in DOMAIN anns |->
                         IF a \in refs THEN [anns[a] EXCEPT !.source = "consensus"] ELSE anns[a]]
    /\ queue' = Tail(queue)
    /\ pc' = "loop"
    /\ UNCHANGED <<exc, input, errors, dataset_mean_consensus_score, dataset_map, ann_map,
                   item_id, cache, adjacent, visited, cluster, to_visit, clusters, produced>>
    /\ UNCHANGED matcher_vars
    /\ UNCHANGED skeleton_vars
    /\ UNCHANGED merger_vars

\* __call__, lines 86-91: the score lists are averaged, the merged dataset returned
Finalize ==
    /\ pc = "loop"
    /\ queue = <<>>
    /\ dataset_mean_consensus_score' =
           [s \in DOMAIN dataset_mean_consensus_score |-> Mean(dataset_mean_consensus_score[s])]
    /\ pc' = "done"
    /\ UNCHANGED <<exc, input, anns, errors, merged, dataset_map, ann_map, queue, item_id,
                   cache, adjacent, visited, cluster, to_visit, clusters, produced>>
    /\ UNCHANGED matcher_vars
    /\ UNCHANGED skeleton_vars
    /\ UNCHANGED merger_vars

Next ==
    \/ Call
    \/ CheckGroupsDefinition
    \/ MatchItems
    \/ BeginItem
    \/ StartCluster
    \/ Visit
    \/ MergeLabels
    \/ MergeCluster
    \/ FinishItem
    \/ Finalize

InitLabels ==
    \E n \in 0 .. MaxVotes :
        \E srcs \in NonDecreasing(n, Sources), ls \in [1 .. n -> Labels],
           q \in 0 .. 3, th \in {Zero, <<1, 2>>, One} :
            Blank(LabelInput(srcs, ls, q, th))

InitShapes ==
    \E bs \in ShapeBoxes, q \in 0 .. 2, th \in {Zero, <<1, 2>>, One} :
        Blank(ShapeInput(bs, q, th))

InitItems ==
    \E first \in SUBSET Sources, others \in SUBSET Sources, q \in {0, 2}, g \in BOOLEAN :
        /\ first \cup others # {}
        /\ Blank(ItemInput(first, others, q, g))

Init == InitLabels \/ InitShapes \/ InitItems

Spec == Init /\ [][Next]_vars

InitCluster ==
    \E srcs \in NonDecreasing(MaxShapes, Sources), xs \in [1 .. MaxShapes -> 0 .. MaxPos],
       pd \in {Zero, <<1, 4>>} :
        /\ \E i \in 1 .. MaxShapes : xs[i] = 0
        /\ Blank(ClusterInput(srcs, xs, pd))

SpecCluster == InitCluster /\ [][Next]_vars

\* match_annotations on its own: the call up to the clusters of the item.
\* The boxes of one source are listed in the order of their places.
InitPartition ==
    \E srcs \in NonDecreasing(MaxShapes, Sources), xs \in [1 .. MaxShapes -> 0 .. MaxPos],
       pd \in {Zero, <<1, 4>>} :
        /\ \E i \in 1 .. MaxShapes : xs[i] = 0
        /\ \A i \in 1 .. (MaxShapes - 1) : srcs[i] = srcs[i + 1] => xs[i] <= xs[i + 1]
        /\ Blank(ClusterInput(srcs, xs, pd))

NextPartition ==
    \/ Call
    \/ CheckGroupsDefinition
    \/ MatchItems
    \/ BeginItem
    \/ StartCluster
    \/ Visit

SpecPartition == InitPartition /\ [][NextPartition]_vars

\* ------------------------------------------------- the merger on one cluster
MaxMembers == 3

\* One item carried by every source; its boxes are one cluster, of any labels
\* and confidences, member i of source (i - 1) modulo the sources, all at place
\* 0 but the last, which is at place x.
VoteInput(ls, scs, x, q) ==
    Input(FirstItemOnly,
          [i \in DOMAIN ls |-> BoxAnn((i - 1) % NumSources, 1, ls[i], scs[i], 0,
                                      IF i = Len(ls) THEN x ELSE 0)],
          q, Zero, <<1, 4>>, TRUE)

\* merge_annotations as it hands the clusters of the item to merge_clusters
InitVote ==
    \E n \in 1 .. MaxMembers :
        \E ls \in [1 .. n -> Labels], scs \in [1 .. n -> {NoScore, <<1, 2>>}],
           x \in 0 .. 1, q \in 0 .. MaxMembers :
            LET sc == VoteInput(ls, scs, x, q)
            IN /\ ls[1] = 1
               /\ input = sc
               /\ anns = sc.anns
               /\ pc = "shapes"
               /\ exc = ""
               /\ errors = <<>>
               /\ merged = <<>>
               /\ dataset_mean_consensus_score = [s \in Sources |-> <<>>]
               /\ dataset_map = Sources
               /\ ann_map = 1 .. n
               /\ queue = <<1>>
               /\ item_id = 1
               /\ cache = <<>>
               /\ adjacent = <<>>
               /\ visited = 1 .. n
               /\ cluster = {}
               /\ to_visit = {}
               /\ clusters = <<1 .. n>>
               /\ produced = <<>>
               /\ matched = {}
               /\ merged_cluster = <<>>
               /\ skeleton_map = <<>>
               /\ instance_map = <<>>
               /\ pairs_left = <<>>
               /\ call_no = 1

NextVote == MergeCluster

SpecVote == InitVote /\ [][NextVote]_vars

\* ------------------------------------------- the similarity cache on its own
\* Two boxes and one CachedSimilarityFunction over them, used by a client
\* that calls it, pops entries and sets entries in any order.
CacheInput(x) ==
    Input(FirstItemOnly, <<BoxAnn(0, 1, 1, NoScore, 0, 0), BoxAnn(1, 1, 1, NoScore, 0, x)>>,
          0, Zero, <<1, 4>>, TRUE)

InitCache == \E x \in 0 .. MaxPos : Blank(CacheInput(x))

CacheFrame ==
    UNCHANGED <<pc, exc, input, anns, errors, merged, dataset_mean_consensus_score,
                dataset_map, ann_map, queue, item_id, adjacent, visited, cluster, to_visit,
                clusters, produced, matched, merger_vars, skeleton_vars>>

\* CachedSimilarityFunction.__call__
CacheCall == \E a \in AnnIds : \E b \in AnnIds : cache' = cached_call(cache, a, b)[2] /\ CacheFrame

\* CachedSimilarityFunction.pop
CachePop == \E a \in AnnIds : \E b \in AnnIds : cache' = cache_pop(cache, <<a, b>>) /\ CacheFrame

\* CachedSimilarityFunction.set
CacheSet ==
    \E a \in AnnIds : \E b \in AnnIds : \E v \in {Zero, <<1, 2>>, One} :
        cache' = cache_set(cache, <<a, b>>, v) /\ CacheFrame

NextCache == CacheCall \/ CachePop \/ CacheSet

SpecCache == InitCache /\ [][NextCache]_vars

\* ------------------------------------------- the polygon matcher on its own
\* PolygonMatcher.match_annotations_two_sources called on the polygon lists of
\* two sources; polygons are runs of BoxWidth cells on one row.
MaxPolys == 2

\* A polygon annotation object; group 0 means the polygon is in no group.
PolyAnn(s, l, g, x) ==
    [src |-> s, item |-> 1, type |-> "polygon", label |-> l, score |-> NoScore,
     z_order |-> 0, x |-> x, source |-> "", group |-> g]

PolygonInput(as, bs) ==
    [anns |-> as \o bs, item_a |-> 1 .. Len(as), item_b |-> (Len(as) + 1) .. (Len(as) + Len(bs)),
     pairwise_dist |-> <<1, 4>>]

\* _find_instances, lines 456-471: an ungrouped polygon is an instance of its
\* own, the polygons of one group and one label are one instance
find_instances(A) ==
    {{a} : a \in {b \in A : anns[b].group = 0}}
    \cup ({{b \in A : anns[b].group = g /\ anns[b].label = l} :
              g \in {anns[b].group : b \in A} \ {0}, l \in Labels} \ {{}})

\* the cells an instance covers (the merged RLE of its polygons)
InstanceCells(inst) == UNION {anns[a].x .. (anns[a].x + BoxWidth - 1) : a \in inst}

\* _segment_comparator, lines 506-512: IoU of two instances
segment_comparator(ia, ib) ==
    Rat(Cardinality(InstanceCells(ia) \cap InstanceCells(ib)),
        Cardinality(InstanceCells(ia) \cup InstanceCells(ib)))

\* _label_matcher, lines 514-519
instance_label_matcher(ia, ib) ==
    anns[CHOOSE a \in ia : TRUE].label = anns[CHOOSE b \in ib : TRUE].label

RECURSIVE InstanceTotal(_)
InstanceTotal(M) ==
    IF M = {} THEN Zero
    ELSE LET p == CHOOSE q \in M : TRUE
         IN RAdd(segment_comparator(p[1], p[2]), InstanceTotal(M \ {p}))

\* The instance pairs match_segments may return: a one-to-one pairing of
\* same-label instances at least dist_thresh similar, of the highest total
\* similarity.
match_instances(IA, IB, dist_thresh) ==
    LET eligible == {p \in IA \X IB : /\ instance_label_matcher(p[1], p[2])
                                       /\ RLeq(dist_thresh, segment_comparator(p[1], p[2]))}
        pairings == {M \in SUBSET eligible : OneToOne(M)}
    IN {M \in pairings : \A M2 \in pairings : RLeq(InstanceTotal(M2), InstanceTotal(M))}

\* lines 536-540: every polygon of a matched instance with every polygon of
\* the instance it is matched to
restore_annotations(M) == UNION {p[1] \X p[2] : p \in M}

\* PolygonMatcher.match_annotations_two_sources; line 454 reads item_a[0]
MatchPolygons ==
    /\ pc = "idle"
    /\ IF input.item_a = {}
       THEN pc' = "raised" /\ exc' = "IndexError" /\ matched' = matched
       ELSE /\ \E M \in match_instances(find_instances(input.item_a),
                                        find_instances(input.item_b), input.pairwise_dist) :
                   matched' = restore_annotations(M)
            /\ pc' = "returned"
            /\ exc' = exc
    /\ UNCHANGED <<input, anns, errors, merged, dataset_mean_consensus_score, dataset_map,
                   ann_map, queue, item_id, cache, adjacent, visited, cluster, to_visit,
                   clusters, produced, merger_vars,
                   skeleton_vars>>

\* the polygons of source 0 all of label 1 at place 0, in any groups; those of
\* source 1 of any label, group and place
InitPolygon ==
    \E na \in 0 .. MaxPolys, nb \in 0 .. MaxPolys :
        \E ga \in [1 .. na -> {0, 1}], gb \in [1 .. nb -> {0, 1}],
           lb \in [1 .. nb -> Labels], xb \in [1 .. nb -> 0 .. MaxPos] :
            Blank(PolygonInput([i \in 1 .. na |-> PolyAnn(0, 1, ga[i], 0)],
                               [i \in 1 .. nb |-> PolyAnn(1, lb[i], gb[i], xb[i])]))

NextPolygon == MatchPolygons

SpecPolygon == InitPolygon /\ [][NextPolygon]_vars

\* ------------------------------------------------- the settings serializer
\* ConsensusSettingsSerializer.validate on the fields a settings update
\* supplies, in the order Meta.fields declares them.
SettingsFields == <<"iou_threshold", "agreement_score_threshold", "quorum", "sigma">>

\* the values tried for a field: inside its range, on both ends, beyond both
FieldValues(k) ==
    IF k = "quorum" THEN {<<-1, 1>>, <<0, 1>>, <<5, 1>>, <<10, 1>>, <<11, 1>>}
    ELSE IF k = "sigma" THEN {<<1, 25>>, <<1, 20>>, <<1, 10>>, <<1, 5>>, <<21, 100>>}
    ELSE {<<-1, 100>>, <<0, 1>>, <<1, 2>>, <<1, 1>>, <<101, 100>>}

\* k.endswith("_threshold")
ends_with_threshold(k) == k \in {"iou_threshold", "agreement_score_threshold"}

\* the range tests with the lower ends excluded
field_in_range_open(k, v) ==
    IF ends_with_threshold(k) THEN RLt(Zero, v) /\ RLeq(v, One)
    ELSE IF k = "quorum" THEN RLt(Zero, v) /\ RLeq(v, <<10, 1>>)
    ELSE IF k = "sigma" THEN RLt(<<1, 20>>, v) /\ RLeq(v, <<1, 5>>)
    ELSE TRUE

\* validate, lines 97-106: the test one (k, v) of attrs goes through
field_in_range(k, v) ==
    IF ends_with_threshold(k) THEN RLeq(Zero, v) /\ RLeq(v, One)
    ELSE IF k = "quorum" THEN RLeq(Zero, v) /\ RLeq(v, <<10, 1>>)
    ELSE IF k = "sigma" THEN RLeq(<<1, 20>>, v) /\ RLeq(v, <<1, 5>>)
    ELSE TRUE

\* validate, lines 95-108: the first field out of range raises, naming it;
\* "" when the loop ends and attrs is returned
RECURSIVE validate(_)
validate(attrs) ==
    IF attrs = <<>> THEN ""
    ELSE IF ~field_in_range(Head(attrs).k, Head(attrs).v) THEN Head(attrs).k
    ELSE validate(Tail(attrs))

SettingsInput(attrs) == [attrs |-> attrs, anns |-> <<>>]

\* attrs: the supplied fields with their values, in declared order
RECURSIVE Supplied(_, _)
Supplied(fields, value) ==
    IF fields = <<>> THEN <<>>
    ELSE (IF Head(fields) \in DOMAIN value
          THEN <<[k |-> Head(fields), v |-> value[Head(fields)]]>> ELSE <<>>)
         \o Supplied(Tail(fields), value)

Validate ==
    /\ pc = "idle"
    /\ IF validate(input.attrs) = ""
       THEN pc' = "returned" /\ exc' = exc
       ELSE pc' = "raised" /\ exc' = "ValidationError"
    /\ UNCHANGED <<input, anns, errors, merged, dataset_mean_consensus_score, dataset_map,
                   ann_map, queue, item_id, cache, adjacent, visited, cluster, to_visit,
                   clusters, produced, matched, merger_vars, skeleton_vars>>

InitValidate ==
    \E given \in SUBSET Range(SettingsFields) :
        \E value \in [given -> UNION {FieldValues(k) : k \in given}] :
            /\ \A k \in given : value[k] \in FieldValues(k)
            /\ Blank(SettingsInput(Supplied(SettingsFields, value)))

NextValidate == Validate

SpecValidate == InitValidate /\ [][NextValidate]_vars


\* ---------------------------------------------------------------- skeletons
MaxSkeletons == 3
MaxCalls == 2
\* the depth at which the interpreter stops a recursion
RecursionLimit == 3

\* A skeleton of item 1: x is the place of its sub-points; visible is FALSE
\* when every sub-point is absent.
SkeletonAnn(s, l, v, x) ==
    [src |-> s, item |-> 1, type |-> "skeleton", label |-> l, score |-> NoScore,
     z_order |-> 0, x |-> x, source |-> "", visible |-> v]

\* One item carried by every source, skeletons of one label on it.
SkeletonInput(srcs, vs, xs, q, pd) ==
    Input(FirstItemOnly, [i \in DOMAIN srcs |-> SkeletonAnn(srcs[i], 1, vs[i], xs[i])],
          q, Zero, pd, TRUE)

\* KeypointsMatcher.distance on the point sets of two skeletons: 1 at the same
\* place, less the farther apart
keypoints_distance(a, b) ==
    LET d == Abs(anns[a].x - anns[b].x)
    IN IF d >= BoxWidth THEN Zero ELSE Rat(BoxWidth - d, BoxWidth)

\* the sources that hold skeletons for item k, and the skeletons of the item
SkeletonSources(k) == {s \in input.present[k] : TypedAnns(k, s, "skeleton") # {}}
Skeletons(k) == {a \in ItemAnns(k) : anns[a].type = "skeleton"}

\* match_annotations, lines 357-359: the pairs of source lists, in loop order
RECURSIVE InLoopOrder(_)
InLoopOrder(S) ==
    IF S = {} THEN <<>>
    ELSE LET m == CHOOSE p \in S :
                      \A q \in S : p[1] < q[1] \/ (p[1] = q[1] /\ p[2] <= q[2])
         IN <<m>> \o InLoopOrder(S \ {m})

SkeletonPairs(k) ==
    InLoopOrder({p \in SkeletonSources(k) \X SkeletonSources(k) : p[1] < p[2]})

\* id() of the object made last: the annotations, then the point sets that
\* instance_map keeps alive
LastHandle == Len(anns) + Cardinality(DOMAIN instance_map)

\* lines 655-684, points_map inverted: the point set made for every skeleton of
\* S that has a visible sub-point
merged_points(S) ==
    [s \in {t \in S : anns[t].visible} |->
        LastHandle + Cardinality({t \in S : anns[t].visible /\ Before(t, s)}) + 1]

\* lines 680 and 684: None for a skeleton left out, its point set otherwise
skeleton_map_after(S, P) ==
    [s \in (DOMAIN skeleton_map) \cup S |->
        IF s \in DOMAIN P THEN P[s] ELSE IF s \in S THEN 0 ELSE skeleton_map[s]]

\* lines 686-696: every skeleton is an instance of its own
instance_map_after(P) ==
    [h \in (DOMAIN instance_map) \cup Range(P) |->
        IF h \in DOMAIN instance_map THEN instance_map[h] ELSE {h}]

\* points_map[h]: the skeleton that owns point set h
points_map(P, h) == CHOOSE s \in DOMAIN P : P[s] = h

\* lines 698-705: match_segments calls distance on every pair of point sets of
\* the two lists, which stores the similarity under the pair of point sets
points_cache(c, P, A, B) ==
    LET made == {sort_key(<<P[a], P[b]>>) : a \in A \cap DOMAIN P, b \in B \cap DOMAIN P}
    IN [key \in (DOMAIN c) \cup made |->
           IF key \in DOMAIN c THEN c[key]
           ELSE keypoints_distance(points_map(P, key[1]), points_map(P, key[2]))]

\* the keys of the cache that are no pair of point sets of this run
stale_keys(c, P) == {key \in DOMAIN c : key[1] \notin Range(P) \/ key[2] \notin Range(P)}

\* the first key of the cache in insertion order: the entries of an earlier
\* run came in the order of its two lists
first_key(K) ==
    CHOOSE k \in K : \A j \in K : k[1] < j[1] \/ (k[1] = j[1] /\ k[2] <= j[2])

\* lines 710-716 with every key a pair of point sets of this run: each entry
\* is popped and set under the handles of the owning skeletons
rekeyed(c, P) ==
    [key \in {sort_key(<<points_map(P, k[1]), points_map(P, k[2])>>) : k \in DOMAIN c} |->
        LET k == CHOOSE j \in DOMAIN c :
                     sort_key(<<points_map(P, j[1]), points_map(P, j[2])>>) = key
        IN c[k]]

\* merge_items and merge_annotations up to the loop over the source pairs:
\* the mergers are made anew, their cache empty
BeginSkeletonItem ==
    /\ pc = "loop"
    /\ queue # <<>>
    /\ LET k == Head(queue)
       IN /\ item_id' = k
          /\ errors' = IF has_missing_sources(k)
                       THEN Append(errors, MissingSources(k, missing_sources(k)))
                       ELSE errors
          /\ ann_map' = ann_map \cup ItemAnns(k)
          /\ adjacent' = [a \in Skeletons(k) |-> {}]
          /\ pairs_left' = SkeletonPairs(k)
          /\ pc' = IF SkeletonPairs(k) = <<>> THEN "cluster" ELSE "pairs"
    /\ cache' = EmptyCache
    /\ visited' = {}
    /\ cluster' = {}
    /\ to_visit' = {}
    /\ clusters' = <<>>
    /\ produced' = <<>>
    /\ UNCHANGED <<exc, input, anns, merged, dataset_mean_consensus_score, dataset_map, queue,
                   matched, merged_cluster, skeleton_map, instance_map, call_no>>

\* SkeletonMatcher.match_annotations_two_sources on the next pair of source
\* lists, and lines 366-368 of match_annotations
MatchSkeletons ==
    /\ pc = "pairs"
    /\ pairs_left # <<>>
    /\ LET p == Head(pairs_left)
           A == TypedAnns(item_id, p[1], "skeleton")
           B == TypedAnns(item_id, p[2], "skeleton")
           P == merged_points(A \cup B)
           c1 == points_cache(cache, P, A, B)
           c2 == rekeyed(c1, P)
       IN IF A = {} /\ B = {}
          THEN /\ matched' = {}
               /\ pairs_left' = Tail(pairs_left)
               /\ pc' = IF Tail(pairs_left) = <<>> THEN "cluster" ELSE "pairs"
               /\ UNCHANGED <<exc, cache, adjacent, skeleton_map, instance_map>>
          ELSE /\ skeleton_map' = skeleton_map_after(A \cup B, P)
               /\ instance_map' = instance_map_after(P)
               /\ IF stale_keys(c1, P) # {}
                  THEN /\ cache' = cache_pop(c1, first_key(stale_keys(c1, P)))
                       /\ pc' = "raised"
                       /\ exc' = "KeyError"
                       /\ UNCHANGED <<matched, adjacent, pairs_left>>
                  ELSE /\ cache' = c2
                       /\ \E M \in match_segments(c2, A \cap DOMAIN P, B \cap DOMAIN P,
                                                  input.pairwise_dist) :
                              /\ matched' = M
                              /\ adjacent' = [a \in DOMAIN adjacent |->
                                                 adjacent[a] \cup {q[2] : q \in {r \in M : r[1] = a}}]
                       /\ pairs_left' = Tail(pairs_left)
                       /\ pc' = IF Tail(pairs_left) = <<>> THEN "cluster" ELSE "pairs"
                       /\ exc' = exc
    /\ UNCHANGED <<input, anns, errors, merged, dataset_mean_consensus_score, dataset_map,
                   ann_map, queue, item_id, visited, cluster, to_visit, clusters, produced,
                   merged_cluster, call_no>>

\* what a distance call gives when the recursion is stopped
Overflow == <<1, 0>>

\* SkeletonMatcher.distance on two skeletons: CachedSimilarityFunction.__call__
\* returns 1 for one object and the cached value for a cached pair; for any
\* other pair it calls _distance_func, which calls distance again (line 641)
\* with nothing stored in between
RECURSIVE skeleton_distance(_, _, _, _)
skeleton_distance(c, a, b, depth) ==
    IF a = b THEN One
    ELSE IF sort_key(<<a, b>>) \in DOMAIN c THEN c[sort_key(<<a, b>>)]
    ELSE IF depth >= RecursionLimit THEN Overflow
    ELSE skeleton_distance(c, a, b, depth + 1)

\* whether a distance call on two members of the cluster is stopped
overflows(c, order) ==
    \E i \in DOMAIN order : \E j \in DOMAIN order :
        skeleton_distance(c, order[i], order[j], 0) = Overflow

\* SkeletonMerger._merge_cluster_shape_nearest, dist[idx]
mean_distance(c, order, i) ==
    RDivInt(RSumSeq([j \in DOMAIN order |-> skeleton_distance(c, order[i], order[j], 0)]),
            Len(order))

\* SkeletonMerger._merge_cluster_shape_nearest: min(dist, key=dist.get), the
\* first member of the least mean
merge_cluster_shape_nearest(c, order) ==
    LET pos == CHOOSE i \in DOMAIN order :
                   /\ \A j \in DOMAIN order :
                          RLeq(mean_distance(c, order, i), mean_distance(c, order, j))
                   /\ \A j \in DOMAIN order :
                          j < i => RLt(mean_distance(c, order, i), mean_distance(c, order, j))
    IN order[pos]

\* SkeletonMerger.merge_cluster_shape: the representative and the shape score
skeleton_merge_cluster_shape(c, order) ==
    LET shape == merge_cluster_shape_nearest(c, order)
    IN [shape |-> shape,
        shape_score |-> RDivInt(RSumSeq([i \in DOMAIN order |->
                                             RMax0(skeleton_distance(c, shape, order[i], 0))]),
                                Len(order))]

\* _ShapeMerger.merge_cluster of a SkeletonMerger on the next cluster, the
\* cluster in any list order
MergeSkeletonCluster ==
    /\ pc = "shapes"
    /\ clusters # <<>>
    /\ \E order \in Perms(Head(clusters)) :
           LET vote == find_cluster_label(order)
               m == skeleton_merge_cluster_shape(cache, order)
               shape == m.shape
               obj == MergedShape(anns[shape], vote.label, RMul(vote.score, m.shape_score),
                                  MaxZ(order))
           IN /\ merged_cluster' = order
              /\ IF vote.label = 0
                 THEN /\ errors' = Append(errors, FailedVote(item_id, vote.votes, {}))
                      /\ UNCHANGED <<pc, exc, anns, produced>>
                 ELSE IF overflows(cache, order)
                 THEN /\ pc' = "raised"
                      /\ exc' = "RecursionError"
                      /\ UNCHANGED <<errors, anns, produced>>
                 ELSE /\ anns' = [anns EXCEPT ![shape] = obj]
                      /\ produced' = Append(produced, AsProduced(shape, obj))
                      /\ UNCHANGED <<pc, exc, errors>>
    /\ clusters' = Tail(clusters)
    /\ UNCHANGED <<input, merged, dataset_mean_consensus_score, dataset_map, ann_map, queue,
                   item_id, cache, adjacent, visited, cluster, to_visit, matched,
                   skeleton_map, instance_map, pairs_left, call_no>>

\* the caller takes what the call returned or raised and calls the engine
\* again, on the same datasets loaded anew
CallAgain ==
    /\ pc \in {"done", "raised"}
    /\ call_no < MaxCalls
    /\ pc' = "idle"
    /\ exc' = ""
    /\ anns' = input.anns
    /\ call_no' = call_no + 1
    /\ UNCHANGED <<input, errors, merged, dataset_mean_consensus_score, dataset_map, ann_map,
                   queue, item_id, cache, adjacent, visited, cluster, to_visit, clusters,
                   produced, matched, merged_cluster, skeleton_map, instance_map, pairs_left>>

InitSkeleton ==
    \E n \in 0 .. MaxSkeletons :
        \E srcs \in NonDecreasing(n, Sources), vs \in [1 .. n -> BOOLEAN],
           xs \in [1 .. n -> 0 .. 1], q \in {0, 2}, pd \in {<<1, 4>>, One} :
            Blank(SkeletonInput(srcs, vs, xs, q, pd))

NextSkeleton ==
    \/ Call
    \/ CheckGroupsDefinition
    \/ MatchItems
    \/ BeginSkeletonItem
    \/ MatchSkeletons
    \/ StartCluster
    \/ Visit
    \/ MergeLabels
    \/ MergeSkeletonCluster
    \/ FinishItem
    \/ Finalize
    \/ CallAgain

SpecSkeleton == InitSkeleton /\ [][NextSkeleton]_vars

\* the skeleton merger handed one cluster, member i of source (i - 1) modulo
\* the sources, with the similarities of the pairs of K in its cache
InitSkeletonMerge ==
    \E n \in 1 .. MaxSkeletons :
        \E xs \in [1 .. n -> 0 .. 1], q \in {0, 2},
           K \in SUBSET {p \in (1 .. n) \X (1 .. n) : p[1] < p[2]} :
            LET sc == SkeletonInput([i \in 1 .. n |-> (i - 1) % NumSources],
                                    [i \in 1 .. n |-> TRUE], xs, q, <<1, 4>>)
            IN /\ input = sc
               /\ anns = sc.anns
               /\ pc = "shapes"
               /\ exc = ""
               /\ errors = <<>>
               /\ merged = <<>>
               /\ dataset_mean_consensus_score = [s \in Sources |-> <<>>]
               /\ dataset_map = Sources
               /\ ann_map = 1 .. n
               /\ queue = <<1>>
               /\ item_id = 1
               /\ cache = [key \in K |->
                              LET d == Abs(xs[key[1]] - xs[key[2]])
                              IN Rat(BoxWidth - d, BoxWidth)]
               /\ adjacent = <<>>
               /\ visited = 1 .. n
               /\ cluster = {}
               /\ to_visit = {}
               /\ clusters = <<1 .. n>>
               /\ produced = <<>>
               /\ matched = {}
               /\ merged_cluster = <<>>
               /\ skeleton_map = <<>>
               /\ instance_map = <<>>
               /\ pairs_left = <<>>
               /\ call_no = 1

NextSkeletonMerge == MergeSkeletonCluster

SpecSkeletonMerge == InitSkeletonMerge /\ [][NextSkeletonMerge]_vars

\* ------------------------------------------------------------------- claims
\* C1: no two distinct members of a cluster returned by match_annotations
\* come from the same source.
C1_NoSharedSource ==
    \A i \in DOMAIN clusters : \A a \in clusters[i] : \A b \in clusters[i] :
        a # b => anns[a].src # anns[b].src

\* C2: when the effective cluster tightness is positive, every two members of
\* every cluster returned by match_annotations are at least that similar.
C2_ClusterTight ==
    RLt(Zero, EffectiveClusterDist) =>
        \A i \in DOMAIN clusters : \A a \in clusters[i] : \A b \in clusters[i] :
            RLeq(EffectiveClusterDist, distance(cache, a, b))

\* C3: every merged annotation has a combined score in [0,1] (the source
\* confidences of every input are in [0,1]).
C3_ScoreInUnitInterval ==
    \A i \in DOMAIN produced : InUnitInterval(produced[i].score)

MissingErrors(k) ==
    {i \in DOMAIN errors : errors[i].kind = "MissingSources" /\ errors[i].item = k}

\* C4: an item carried by k < N sources is still merged, from the annotations
\* of the sources that carry it, with exactly one MissingSources error that
\* lists the N-k absent sources; an item carried by all sources has none.
C4_MissingSources ==
    /\ \A k \in DOMAIN merged :
           /\ Cardinality(MissingErrors(k)) =
                  (IF Cardinality(input.present[k]) < NumSources THEN 1 ELSE 0)
           /\ \A i \in MissingErrors(k) : errors[i].sources = Sources \ input.present[k]
           /\ \A i \in DOMAIN merged[k] :
                  merged[k][i].ref # 0 =>
                      /\ anns[merged[k][i].ref].item = k
                      /\ anns[merged[k][i].ref].src \in input.present[k]
    /\ pc = "done" => DOMAIN merged = {k \in Keys : input.present[k] # {}}

C4_Witness ==
    /\ pc = "done"
    /\ \E k \in DOMAIN merged :
           /\ Cardinality(input.present[k]) = 1
           /\ merged[k] # <<>>
           /\ \E i \in MissingErrors(k) : Cardinality(errors[i].sources) = NumSources - 1
    /\ \E k \in DOMAIN merged : input.present[k] = Sources /\ MissingErrors(k) = {}

\* the items whose label merging has run: merged, or the call ended in it
LabelMergeRan(k) == k \in DOMAIN merged \/ (exc = "TypeError" /\ item_id = k)

BelowQuorum(k) ==
    {l \in Labels : /\ Supporters(LabelCluster(k), l) # {}
                    /\ Cardinality(Supporters(LabelCluster(k), l)) < input.quorum}

\* C5: a label whose vote count is below quorum is absent from the merged
\* output and exactly one FailedVote error records its tally and the sources
\* that did not vote for it; a label at or above quorum is emitted once with
\* score = count / number of sources.
C5_FailedVoteRecorded ==
    \A k \in Keys : LabelMergeRan(k) =>
        /\ \A l \in BelowQuorum(k) :
               Cardinality({i \in DOMAIN errors :
                   /\ errors[i].kind = "FailedVote"
                   /\ errors[i].item = k
                   /\ errors[i].sources =
                          {anns[a].src : a \in {b \in Range(LabelCluster(k)) : anns[b].label # l}}
                   }) >= 1
        /\ Cardinality({i \in DOMAIN errors : errors[i].kind = "FailedVote" /\ errors[i].item = k})
               >= Cardinality(BelowQuorum(k))
        /\ k \in DOMAIN merged

\* C6: the returned item holds exactly the annotations merge_annotations
\* produced whose score (1 without a score) is at least output_conf_thresh.
C6_ConfidenceFloor ==
    /\ \A k \in DOMAIN merged : \A i \in DOMAIN merged[k] :
           RLeq(input.output_conf_thresh, ScoreOr1(merged[k][i]))
    /\ item_id \in DOMAIN merged =>
           /\ \A j \in DOMAIN produced :
                  RLeq(input.output_conf_thresh, ScoreOr1(produced[j])) =>
                      \E i \in DOMAIN merged[item_id] :
                          merged[item_id][i] = [produced[j] EXCEPT !.source = "consensus"]
           /\ \A i \in DOMAIN merged[item_id] : \E j \in DOMAIN produced :
                  merged[item_id][i] = [produced[j] EXCEPT !.source = "consensus"]
           /\ Len(merged[item_id]) <= Len(produced)

C6_Witness ==
    /\ item_id \in DOMAIN merged
    /\ \E j \in DOMAIN produced : RLt(produced[j].score, input.output_conf_thresh)
    /\ \E i \in DOMAIN merged[item_id] : merged[item_id][i].score = input.output_conf_thresh

\* C7: on one cache, a distance call on (a, b) and the call on (b, a) after it
\* return the same value, and a call on (a, a) returns 1.
C7_CacheSymmetric ==
    \A a \in AnnIds : \A b \in AnnIds :
        /\ cached_call(cached_call(cache, a, b)[2], b, a)[1] = cached_call(cache, a, b)[1]
        /\ distance(cache, a, b) = distance(cache, b, a)
        /\ distance(cache, a, a) = One

C7_Witness ==
    \E a \in AnnIds : \E b \in AnnIds :
        /\ a < b
        /\ <<a, b>> \in DOMAIN cache
        /\ cache[<<a, b>>] # distance_func(a, b)
        /\ distance(cache, b, a) = cache[<<a, b>>]

\* C8: a failed configuration check aborts the call before any item is
\* aligned or merged, and nothing else aborts a call: MissingSources and
\* FailedVote conditions are only recorded.
C8_OnlyInvalidConfigurationAborts ==
    pc = "raised" =>
        /\ exc = "InvalidConfiguration"
        /\ errors = <<>>
        /\ merged = <<>>
        /\ item_id = 0

\* C9: after the call the label, z-order and attributes of every source
\* annotation are what they were before it.
C9_SourcesUnchanged == pc = "done" => anns = input.anns

\* C10: after the call every source has a consensus score that is a number in
\* [0,1], also a source for which no similarity was appended.
C10_SourceScores ==
    pc = "done" => \A s \in Sources : InUnitInterval(dataset_mean_consensus_score[s])

\* C11: in the pairs a pairwise matcher returns for two sources, polygon
\* instances expanded back to their annotations, each annotation appears in at
\* most one pair.
C11_OnePairPerAnnotation ==
    pc = "returned" =>
        \A p \in matched : \A q \in matched : p # q => (p[1] # q[1] /\ p[2] # q[2])

\* C12: a pairwise matcher called with an empty list on either side, or on
\* both, returns no pairs and raises no error.
C12_EmptySideNoPairs ==
    (pc # "idle" /\ (input.item_a = {} \/ input.item_b = {})) =>
        (pc = "returned" /\ exc = "" /\ matched = {})

\* C13: validate accepts a settings update exactly when every supplied
\* threshold is in [0,1], a supplied quorum is in [0,10] and a supplied sigma
\* is in [0.05,0.2]; a rejection is a validation error; fields that are not
\* supplied are not checked.
C13_ValidateRanges ==
    pc # "idle" =>
        /\ (pc = "returned" /\ exc = "") <=>
               \A i \in DOMAIN input.attrs :
                   LET k == input.attrs[i].k
                       v == input.attrs[i].v
                   IN /\ (k \in {"iou_threshold", "agreement_score_threshold"}
                             => v[1] >= 0 /\ v[1] <= v[2])
                      /\ (k = "quorum" => v[1] >= 0 /\ v[1] <= 10 * v[2])
                      /\ (k = "sigma" => 20 * v[1] >= v[2] /\ 5 * v[1] <= v[2])
        /\ pc = "raised" => exc = "ValidationError"

C13_Witness ==
    /\ pc = "returned"
    /\ Len(input.attrs) = 2
    /\ \E i \in DOMAIN input.attrs : input.attrs[i] = [k |-> "sigma", v |-> <<1, 20>>]
    /\ \E i \in DOMAIN input.attrs : input.attrs[i] = [k |-> "quorum", v |-> <<0, 1>>]

\* match_annotations has returned: every annotation was visited and no
\* cluster is under construction (lines 373-402)
ClustersReturned == pc = "cluster" /\ to_visit = {} /\ DOMAIN adjacent \subseteq visited

\* the annotations matched to no other annotation
Unmatched == {a \in DOMAIN adjacent : adjacent[a] = {} /\ \A b \in DOMAIN adjacent : a \notin adjacent[b]}

\* C14: the clusters match_annotations returns are a partition of the item's
\* annotations of the type: non-empty, pairwise disjoint, every annotation in
\* one of them, an unmatched annotation in a cluster of its own.
C14_ClustersPartition ==
    /\ \A i \in DOMAIN clusters : clusters[i] # {}
    /\ \A i \in DOMAIN clusters : \A j \in DOMAIN clusters :
           i # j => clusters[i] \cap clusters[j] = {}
    /\ pc = "cluster" => \A i \in DOMAIN clusters : clusters[i] \cap cluster = {}
    /\ ClustersReturned =>
           /\ UNION {clusters[i] : i \in DOMAIN clusters} = Shapes(item_id)
           /\ \A a \in Unmatched : \E i \in DOMAIN clusters : clusters[i] = {a}

\* returned clusters where a guard rejected a matched annotation, which is in
\* another cluster, and an unmatched annotation is on its own
C14_Witness ==
    /\ ClustersReturned
    /\ Unmatched # {}
    /\ \E i \in DOMAIN clusters : \E j \in DOMAIN clusters :
           /\ i # j
           /\ Cardinality(clusters[i]) >= 2
           /\ \E a \in clusters[i] : \E b \in clusters[j] : b \in adjacent[a]

\* one step of _ShapeMerger.merge_cluster on the first cluster still to merge
MergeClusterStep == pc = "shapes" /\ clusters # <<>> /\ clusters' = Tail(clusters)

\* the place of the first member of the cluster that carries label l
FirstPlace(order, l) ==
    CHOOSE i \in Supporters(order, l) : \A j \in Supporters(order, l) : i <= j

\* the labels of the highest accumulated confidence, the one seen first when
\* several share it
Winners(order) ==
    LET labels == {anns[a].label : a \in Range(order)}
    IN {l \in labels :
           \A m \in labels \ {l} :
               \/ RLt(Weight(order, m), Weight(order, l))
               \/ /\ Weight(order, m) = Weight(order, l)
                  /\ FirstPlace(order, l) < FirstPlace(order, m)}

\* C15: a shaped cluster has exactly one winning label, the one of the highest
\* accumulated member confidence, the first seen on a tie; when fewer members
\* than the quorum support it the cluster gives no merged annotation and
\* exactly one FailedVote error, otherwise the merged annotation carries the
\* label, with label score = accumulated confidence / number of sources and
\* score = label score x shape score, and no error is added.
C15_ShapeVote ==
    [][MergeClusterStep =>
          LET order == merged_cluster'
              n == Len(produced')
              e == Len(errors')
          IN /\ Range(order) = Head(clusters)
             /\ Cardinality(Winners(order)) = 1
             /\ \A l \in Winners(order) :
                    IF Cardinality(Supporters(order, l)) < input.quorum
                    THEN /\ produced' = produced
                         /\ e = Len(errors) + 1
                         /\ SubSeq(errors', 1, e - 1) = errors
                         /\ errors'[e].kind = "FailedVote"
                    ELSE /\ errors' = errors
                         /\ n = Len(produced) + 1
                         /\ SubSeq(produced', 1, n - 1) = produced
                         /\ produced'[n].label = l
                         /\ produced'[n].ref \in Range(order)
                         /\ produced'[n].score =
                                RMul(RDivInt(Weight(order, l), dataset_count),
                                     Mean([i \in DOMAIN order |->
                                              RMax0(distance(cache, produced'[n].ref,
                                                             order[i]))]))]_vars

\* a cluster of two members of different labels and equal confidence was
\* merged under the label of the member listed first
C15_Witness ==
    /\ pc = "shapes"
    /\ Len(merged_cluster) = 2
    /\ input.anns[merged_cluster[1]].label # input.anns[merged_cluster[2]].label
    /\ input.anns[merged_cluster[1]].score = input.anns[merged_cluster[2]].score
    /\ errors = <<>>
    /\ Len(produced) >= 1
    /\ produced[Len(produced)].label = input.anns[merged_cluster[1]].label

\* three members of one label and default confidence, one of each of the three
\* sources, were merged with score 1 and no error
C15_ScenarioReached ==
    /\ pc = "shapes"
    /\ Len(merged_cluster) = NumSources
    /\ {get_ann_source(a) : a \in Range(merged_cluster)} = Sources
    /\ input.quorum = 2
    /\ errors = <<>>
    /\ Len(produced) >= 1
    /\ produced[Len(produced)].score = One

\* the similarity of members a and b of the cluster just merged, as the
\* merger's distance gives it
MemberSimilarity(a, b) == IF a = b THEN One ELSE cache'[sort_key(<<a, b>>)]

\* the similarities to the representative of the members that source s owns,
\* in list order
RECURSIVE OwnSimilarities(_, _, _)
OwnSimilarities(order, rep, s) ==
    IF order = <<>> THEN <<>>
    ELSE (IF get_ann_source(Head(order)) = s
          THEN <<RMax0(MemberSimilarity(Head(order), rep))>> ELSE <<>>)
         \o OwnSimilarities(Tail(order), rep, s)

\* C16: when a shaped cluster of any type, skeletons included, is merged, the
\* similarity of each member to the chosen representative is appended exactly
\* once to the consensus-score list of the source that owns the member, and
\* the shape score is the mean of max(0, distance(representative, member))
\* over all members.
C16_MemberScoresAppended ==
    [][(MergeClusterStep /\ Len(produced') = Len(produced) + 1) =>
          LET order == merged_cluster'
              new == produced'[Len(produced')]
          IN /\ \A s \in DOMAIN dataset_mean_consensus_score :
                    dataset_mean_consensus_score'[s] =
                        dataset_mean_consensus_score[s] \o OwnSimilarities(order, new.ref, s)
             /\ new.score =
                    RMul(RDivInt(Weight(order, new.label), dataset_count),
                         Mean([i \in DOMAIN order |->
                                  RMax0(MemberSimilarity(new.ref, order[i]))]))]_vars

\* the first item of a call has just been taken up: the call has reset what
\* it resets and made its mergers, and no annotation has been matched yet
FirstItemBegun ==
    /\ pc \in {"pairs", "cluster"}
    /\ queue = SetToSeq({k \in Keys : input.present[k] # {}})
    /\ pairs_left = SkeletonPairs(item_id)
    /\ visited = {}
    /\ to_visit = {}

\* what the call has created itself by then
OwnStateOnly ==
    /\ errors = IF has_missing_sources(item_id)
                THEN <<MissingSources(item_id, missing_sources(item_id))>> ELSE <<>>
    /\ dataset_map = Sources
    /\ ann_map = ItemAnns(item_id)
    /\ \A s \in DOMAIN dataset_mean_consensus_score : dataset_mean_consensus_score[s] = <<>>
    /\ DOMAIN cache = {}

\* C17: in any sequence of calls on one engine, nothing created by one call is
\* there for a later call: when a call takes up its first item, the error
\* list, the source and annotation indices, the score lists of the sources,
\* the similarity cache and the instance and skeleton maps of the matchers
\* hold nothing but what this call has put there.
C17_NothingFromEarlierCalls ==
    FirstItemBegun =>
        /\ OwnStateOnly
        /\ DOMAIN skeleton_map = {}
        /\ DOMAIN instance_map = {}

\* the part of the statement that is about what __call__ and _make_mergers
\* reset
C17_ResetStateFresh == FirstItemBegun => OwnStateOnly

C17_SecondCallReached == FirstItemBegun /\ call_no = 2 /\ errors = <<>>

\* the pairs of source lists of the current item already matched
PairsDone == Range(SkeletonPairs(item_id)) \ Range(pairs_left)

\* C18: every run of the skeleton pairwise matching on a pair of source lists
\* of an item ends without error, and leaves the similarity of every two
\* point sets it compared in the cache under the handles of the two owning
\* skeletons, with the same value, also when the cache holds entries that an
\* earlier pair of the item has re-keyed.
C18_SkeletonRunsComplete ==
    /\ exc # "KeyError"
    /\ pc \in {"pairs", "cluster"} =>
           \A p \in PairsDone :
               \A a \in TypedAnns(item_id, p[1], "skeleton") :
                   \A b \in TypedAnns(item_id, p[2], "skeleton") :
                       (anns[a].visible /\ anns[b].visible) =>
                           /\ sort_key(<<a, b>>) \in DOMAIN cache
                           /\ cache[sort_key(<<a, b>>)] = keypoints_distance(a, b)

\* the first run of an item has left its similarities under the skeletons
C18_FirstRunDone ==
    /\ pc \in {"pairs", "cluster"}
    /\ Cardinality(PairsDone) = 1
    /\ DOMAIN cache # {}
    /\ DOMAIN cache \subseteq Skeletons(item_id) \X Skeletons(item_id)

\* C19: every distance evaluation between two skeletons ends with a value:
\* for any cluster of skeletons handed to the skeleton merger, also one with
\* pairs of members whose similarity is not in the cache, the choice of the
\* representative and the shape score finish, and the cached distance never
\* calls itself again without end through SkeletonMatcher._distance_func.
C19_SkeletonDistanceTerminates ==
    /\ exc # "RecursionError"
    /\ (pc = "shapes" /\ clusters = <<>> /\ errors = <<>> /\ Skeletons(item_id) # {}) =>
           produced # <<>>

\* a cluster with every pair of its members cached was merged
C19_CachedClusterMerged ==
    /\ pc = "shapes"
    /\ Len(merged_cluster) >= 2
    /\ Len(produced) = 1

====
